---- MODULE Spec2Model ----
(***************************************************************************)
(* A model of the emu6502 instruction execution engine: the memory bus     *)
(* (src/src/bus.rs), the RAM backend (src/src/memory/ram.rs) and the CPU   *)
(* core (src/src/cpu.rs).                                                  *)
(*                                                                         *)
(* Integers keep the width of the Rust types: u16 values live in           *)
(* 0..65535, u8 values in 0..255.  The arithmetic operators +, - and +=    *)
(* of the source are overflow-checked in a build with overflow checks      *)
(* (they panic) and wrap in a build without them; the variable             *)
(* overflow_checks fixes the build for a whole behaviour.                  *)
(*                                                                         *)
(* A panic is a fatal error: it is recorded in the variable fault, after   *)
(* which no operation runs any more.  The state at that point is the       *)
(* state the panic left behind (what had been written stays written).      *)
(***************************************************************************)
EXTENDS Integers, Sequences, FiniteSets, TLC

VARIABLES
    pc, ac, x, y, sp, sr,   \* Cpu registers (cpu.rs:21-26)
    bus,                    \* Cpu.bus.entries: sequence of BusEntry (bus.rs:11)
    fault,                  \* "none", or the panic that ended the run
    overflow_checks,        \* TRUE: arithmetic overflow panics; FALSE: it wraps
    last,                   \* the last operation: its inputs, result and pre-state
    nsteps, nsets, nwrites  \* how many step / set_status / bus write calls so far

vars == <<pc, ac, x, y, sp, sr, bus, fault, overflow_checks, last,
          nsteps, nsets, nwrites>>

----------------------------------------------------------------------------
(* Bounds of the model *)

MaxEntries == 2      \* attach calls per behaviour
MaxSteps == 10       \* step calls per behaviour
MaxSets == 1         \* set_status calls per behaviour
MaxWrites == 1       \* Bus.write / Bus.write_u16 calls per behaviour

----------------------------------------------------------------------------
(* Fixed-width arithmetic *)

Min(S) == CHOOSE m \in S : \A n \in S : m <= n

Pow2(n) == 2 ^ n

\* bit i of v
BitOf(v, i) == (v \div Pow2(i)) % 2

\* a & b on 8-bit values
And8(a, b) ==
    LET f[i \in 0..8] ==
            IF i = 8 THEN 0 ELSE BitOf(a, i) * BitOf(b, i) * Pow2(i) + f[i + 1]
    IN  f[0]

\* `a + b` on u16: panics on overflow when checked, wraps otherwise
Add16(a, b, chk) ==
    IF a + b > 65535 /\ chk
    THEN [fault |-> "overflow", val |-> a]
    ELSE [fault |-> "none", val |-> (a + b) % 65536]

\* `a - b` on u8: panics on overflow when checked, wraps otherwise
Sub8(a, b, chk) ==
    IF a - b < 0 /\ chk
    THEN [fault |-> "overflow", val |-> a]
    ELSE [fault |-> "none", val |-> (a - b + 256) % 256]

\* u8.overflowing_add(b).0 and u8.overflowing_sub(b).0: always wrap
OverflowingAdd8(a, b) == (a + b) % 256
OverflowingSub8(a, b) == (a - b + 256) % 256

\* `v as u8 as i8 as i16 as u16`: sign extension of the low byte to 16 bits
SignExtend(v) ==
    LET b == v % 256 IN IF b >= 128 THEN b + 65280 ELSE b

----------------------------------------------------------------------------
(* memory/ram.rs: a backend is a fixed array of bytes; indexing is         *)
(* bounds-checked, an offset outside the array panics.  The model keeps    *)
(* the array as a sequence (offset o is element o + 1) and lets the size   *)
(* vary with the array.                                                    *)

RamSize(data) == Len(data)

RamRead(data, off) ==
    IF off < Len(data)
    THEN [fault |-> "none", val |-> data[off + 1]]
    ELSE [fault |-> "index_out_of_bounds", val |-> 0]

RamWrite(data, off, value) ==
    IF off < Len(data)
    THEN [fault |-> "none", data |-> [data EXCEPT ![off + 1] = value]]
    ELSE [fault |-> "index_out_of_bounds", data |-> data]

----------------------------------------------------------------------------
(* bus.rs *)

\* BusEntry::new: end: start + size
BusEntryEnd(start, size, chk) == Add16(start, size, chk)

BusEntryNew(data, name, start, chk) ==
    LET e == BusEntryEnd(start, RamSize(data), chk)
    IN  [fault |-> e.fault,
         entry |-> [data |-> data, name |-> name, start |-> start, end |-> e.val]]

\* Bus::backend / Bus::backend_mut: the index of the first entry, in
\* insertion order, with start <= addr <= end; 0 stands for the panic
\* "No backend for address".
Contains(entry, addr) == entry.start <= addr /\ addr <= entry.end

Backend(entries, addr) ==
    LET hits == {i \in 1..Len(entries) : Contains(entries[i], addr)}
    IN  IF hits = {} THEN 0 ELSE Min(hits)

\* the offset BusEntry::read / BusEntry::write hand to the backend
EntryOffset(entry, addr) == addr - entry.start

EntryRead(entry, addr) == RamRead(entry.data, EntryOffset(entry, addr))

EntryWrite(entry, addr, value) ==
    LET w == RamWrite(entry.data, EntryOffset(entry, addr), value)
    IN  [fault |-> w.fault, entry |-> [entry EXCEPT !.data = w.data]]

Access(i, entry, addr) == [entry |-> i, off |-> EntryOffset(entry, addr)]

\* Bus::read
BusRead(entries, addr) ==
    LET i == Backend(entries, addr)
    IN  IF i = 0
        THEN [fault |-> "no_backend", val |-> 0, acc |-> <<>>]
        ELSE LET r == EntryRead(entries[i], addr)
             IN  [fault |-> r.fault, val |-> r.val,
                  acc |-> <<Access(i, entries[i], addr)>>]

\* Bus::read_u16
BusReadU16(entries, addr) ==
    LET i == Backend(entries, addr)
    IN  IF i = 0
        THEN [fault |-> "no_backend", val |-> 0, acc |-> <<>>]
        ELSE IF addr = entries[i].end
        THEN [fault |-> "unaligned", val |-> 0, acc |-> <<>>]
        ELSE LET lo == EntryRead(entries[i], addr)
                 hi == EntryRead(entries[i], addr + 1)
             IN  IF lo.fault # "none"
                 THEN [fault |-> lo.fault, val |-> 0,
                       acc |-> <<Access(i, entries[i], addr)>>]
                 ELSE [fault |-> hi.fault,
                       val |-> IF hi.fault = "none" THEN lo.val + 256 * hi.val ELSE 0,
                       acc |-> <<Access(i, entries[i], addr),
                                 Access(i, entries[i], addr + 1)>>]

\* Bus::write
BusWrite(entries, addr, value) ==
    LET i == Backend(entries, addr)
    IN  IF i = 0
        THEN [fault |-> "no_backend", entries |-> entries, acc |-> <<>>]
        ELSE LET w == EntryWrite(entries[i], addr, value)
             IN  [fault |-> w.fault,
                  entries |-> [entries EXCEPT ![i] = w.entry],
                  acc |-> <<Access(i, entries[i], addr)>>]

\* Bus::write_u16: low byte at addr, then high byte at addr + 1
BusWriteU16(entries, addr, value) ==
    LET i == Backend(entries, addr)
    IN  IF i = 0
        THEN [fault |-> "no_backend", entries |-> entries, acc |-> <<>>]
        ELSE IF addr = entries[i].end
        THEN [fault |-> "unaligned", entries |-> entries, acc |-> <<>>]
        ELSE LET lo == EntryWrite(entries[i], addr, value % 256)
                 hi == EntryWrite(lo.entry, addr + 1, value \div 256)
             IN  IF lo.fault # "none"
                 THEN [fault |-> lo.fault, entries |-> entries,
                       acc |-> <<Access(i, entries[i], addr)>>]
                 ELSE [fault |-> hi.fault,
                       entries |-> [entries EXCEPT ![i] = hi.entry],
                       acc |-> <<Access(i, entries[i], addr),
                                 Access(i, entries[i], addr + 1)>>]

----------------------------------------------------------------------------
(* The opcode table (OpCode::get).  Its source file is not among the       *)
(* sources; the table below follows section 4.2 of the specification (a    *)
(* total function from byte value to an optional OpCode with identity,     *)
(* addressing mode and byte length) with the 6502 encodings of the         *)
(* identities that cpu.rs dispatches, and three identities (LDA, INX, NOP) *)
(* that it does not.                                                       *)

NoOpCode == [id |-> "none", addressing |-> "none", bytes |-> 0]

\* the table: <<byte value, identity, addressing mode, byte length>>
OpTable ==
    {
      <<105, "ADC", "Immediate", 2>>, <<101, "ADC", "ZeroPage", 2>>, <<117, "ADC", "ZeroPageX", 2>>,
      <<109, "ADC", "Absolute", 3>>, <<125, "ADC", "AbsoluteX", 3>>, <<121, "ADC", "AbsoluteY", 3>>,
      <<97, "ADC", "IndirectX", 2>>, <<113, "ADC", "IndirectY", 2>>, <<41, "AND", "Immediate", 2>>,
      <<37, "AND", "ZeroPage", 2>>, <<53, "AND", "ZeroPageX", 2>>, <<45, "AND", "Absolute", 3>>,
      <<61, "AND", "AbsoluteX", 3>>, <<57, "AND", "AbsoluteY", 3>>, <<33, "AND", "IndirectX", 2>>,
      <<49, "AND", "IndirectY", 2>>, <<10, "ASL", "Accumulator", 1>>, <<6, "ASL", "ZeroPage", 2>>,
      <<22, "ASL", "ZeroPageX", 2>>, <<14, "ASL", "Absolute", 3>>, <<30, "ASL", "AbsoluteX", 3>>,
      <<144, "BCC", "Relative", 2>>, <<176, "BCS", "Relative", 2>>, <<240, "BEQ", "Relative", 2>>,
      <<48, "BMI", "Relative", 2>>, <<208, "BNE", "Relative", 2>>, <<16, "BPL", "Relative", 2>>,
      <<36, "BIT", "ZeroPage", 2>>, <<44, "BIT", "Absolute", 3>>, <<0, "BRK", "Implied", 1>>,
      <<24, "CLC", "Implied", 1>>, <<216, "CLD", "Implied", 1>>, <<88, "CLI", "Implied", 1>>,
      <<201, "CMP", "Immediate", 2>>, <<197, "CMP", "ZeroPage", 2>>, <<213, "CMP", "ZeroPageX", 2>>,
      <<205, "CMP", "Absolute", 3>>, <<221, "CMP", "AbsoluteX", 3>>, <<217, "CMP", "AbsoluteY", 3>>,
      <<193, "CMP", "IndirectX", 2>>, <<209, "CMP", "IndirectY", 2>>, <<224, "CPX", "Immediate", 2>>,
      <<228, "CPX", "ZeroPage", 2>>, <<236, "CPX", "Absolute", 3>>, <<192, "CPY", "Immediate", 2>>,
      <<196, "CPY", "ZeroPage", 2>>, <<204, "CPY", "Absolute", 3>>, <<198, "DEC", "ZeroPage", 2>>,
      <<214, "DEC", "ZeroPageX", 2>>, <<206, "DEC", "Absolute", 3>>, <<222, "DEC", "AbsoluteX", 3>>,
      <<202, "DEX", "Implied", 1>>, <<136, "DEY", "Implied", 1>>, <<76, "JMP", "Absolute", 3>>,
      <<108, "JMP", "Indirect", 3>>, <<169, "LDA", "Immediate", 2>>, <<232, "INX", "Implied", 1>>,
      <<234, "NOP", "Implied", 1>> }

OpCodeGet(code) ==
    LET rows == {r \in OpTable : r[1] = code}
        r == CHOOSE r \in rows : TRUE
    IN  IF rows = {} THEN NoOpCode
        ELSE [id |-> r[2], addressing |-> r[3], bytes |-> r[4]]

----------------------------------------------------------------------------
(* cpu.rs: the Cpu is the record [pc, ac, x, y, sp, sr, bus].  Every       *)
(* routine that can panic returns [fault, ...]; fault = "none" is a normal *)
(* return.                                                                 *)

STACK_BASE == 256

\* StatusBit (cpu.rs:9-17)
Carry == 0
Zero == 1
Interrupt == 2
Decimal == 3
Break == 4
Overflow == 5
Negative == 6
StatusBits == {Carry, Zero, Interrupt, Decimal, Break, Overflow, Negative}

\* Cpu::status_u8: (sr >> bit) & 1
StatusU8(s, bit) == (s \div Pow2(bit)) % 2

\* Cpu::status
Status(s, bit) == StatusU8(s, bit) = 1

\* SetStatus clearing with `sr &= 1 << bit`, the mask not inverted
SetStatusNoInvert(s, bit, state) ==
    IF state
    THEN IF BitOf(s, bit) = 1 THEN s ELSE s + Pow2(bit)
    ELSE BitOf(s, bit) * Pow2(bit)

\* Cpu::set_status on the status register value s:
\* sr |= 1 << bit, or sr &= !(1 << bit)
SetStatus(s, bit, state) ==
    IF state
    THEN IF BitOf(s, bit) = 1 THEN s ELSE s + Pow2(bit)
    ELSE IF BitOf(s, bit) = 1 THEN s - Pow2(bit) ELSE s

\* Cpu::update_status: Zero from value == 0, Negative from (value as i8) < 0
UpdateStatus(s, value) ==
    SetStatus(SetStatus(s, Zero, value = 0), Negative, value >= 128)

Ok(m) == [fault |-> "none", m |-> m]
Panic(f, m) == [fault |-> f, m |-> m]
Val(v) == [fault |-> "none", val |-> v]

\* a read result without its access log
Strip(r) == [fault |-> r.fault, val |-> r.val]

NoIns == [opcode |-> NoOpCode, operand |-> 0]
Decoded(f, opcode, operand) == [fault |-> f, opcode |-> opcode, operand |-> operand]

\* Cpu::current_instruction, the match on opcode.bytes: r is the operand read
WithOperand(opcode, r) ==
    Decoded(r.fault, opcode, IF r.fault = "none" THEN r.val ELSE 0)

\* FetchOperand reading the operand at pc instead of pc + 1
FetchOperandAtPc(m, opcode, next) ==
    IF next.fault # "none" THEN Decoded(next.fault, NoOpCode, 0)
    ELSE IF opcode.bytes = 2
    THEN WithOperand(opcode, BusRead(m.bus, m.pc))
    ELSE WithOperand(opcode, BusReadU16(m.bus, m.pc))

\* next is self.pc + 1
FetchOperand(m, opcode, next) ==
    IF next.fault # "none" THEN Decoded(next.fault, NoOpCode, 0)
    ELSE IF opcode.bytes = 2
    THEN WithOperand(opcode, BusRead(m.bus, next.val))
    ELSE WithOperand(opcode, BusReadU16(m.bus, next.val))

DecodeOpCode(m, opcode, chk) ==
    IF opcode = NoOpCode THEN Decoded("invalid_opcode", NoOpCode, 0)
    ELSE IF opcode.bytes = 1 THEN Decoded("none", opcode, 0)
    ELSE FetchOperand(m, opcode, Add16(m.pc, 1, chk))

\* code is the result of self.bus.read(self.pc)
Decode(m, code, chk) ==
    IF code.fault # "none" THEN Decoded(code.fault, NoOpCode, 0)
    ELSE DecodeOpCode(m, OpCodeGet(code.val), chk)

\* Cpu::current_instruction
CurrentInstruction(m, chk) == Decode(m, BusRead(m.bus, m.pc), chk)

\* r + index on u16, r the result of a read_u16
AddIndex(r, index, chk) ==
    IF r.fault # "none" THEN Strip(r) ELSE Add16(r.val, index, chk)

\* Cpu::resolve_address
ResolveAddress(m, ins, chk) ==
    LET mode == ins.opcode.addressing
    IN  CASE mode = "Absolute"  -> Val(ins.operand)
          [] mode = "AbsoluteX" -> Add16(ins.operand, m.x, chk)
          [] mode = "AbsoluteY" -> Add16(ins.operand, m.y, chk)
          [] mode = "Indirect"  -> Strip(BusReadU16(m.bus, ins.operand))
          [] mode = "IndirectX" ->
                Strip(BusReadU16(m.bus, OverflowingAdd8(ins.operand % 256, m.x)))
          [] mode = "IndirectY" ->
                AddIndex(BusReadU16(m.bus, ins.operand), m.y, chk)
          [] mode = "ZeroPage"  -> Val(ins.operand)
          [] mode = "ZeroPageX" -> Val(OverflowingAdd8(ins.operand % 256, m.x))
          [] mode = "ZeroPageY" -> Val(OverflowingAdd8(ins.operand % 256, m.y))
          [] mode = "Relative"  -> Add16(m.pc, SignExtend(ins.operand), chk)
          [] OTHER -> [fault |-> "cannot_get_address", val |-> 0]

\* self.bus.read(a), a the result of resolve_address
ReadAt(m, a) ==
    IF a.fault # "none" THEN a ELSE Strip(BusRead(m.bus, a.val))

\* Cpu::resolve_operand
ResolveOperand(m, ins, chk) ==
    IF ins.opcode.addressing = "Immediate"
    THEN Val(ins.operand % 256)
    ELSE ReadAt(m, ResolveAddress(m, ins, chk))

\* Cpu::branch: pc += operand as u8 as i8 as i16 as u16
BranchTo(m, t) ==
    IF t.fault # "none" THEN Panic(t.fault, m) ELSE Ok([m EXCEPT !.pc = t.val])

Branch(m, ins, chk) == BranchTo(m, Add16(m.pc, SignExtend(ins.operand), chk))

----------------------------------------------------------------------------
(* cpu.rs: opcode implementation.  In F(m, ins, chk) == FWith(m, R(...))   *)
(* the second definition is the body of the routine after its call of R.   *)

\* value16 = ac + op + carry
AdcValue(m, value16) ==
    [m EXCEPT !.ac = value16 % 256,
              !.sr = UpdateStatus(SetStatus(m.sr, Carry, value16 > 255), value16 % 256)]

\* AdcWith without the incoming carry
AdcWithoutCarry(m, op) ==
    IF op.fault # "none" THEN Panic(op.fault, m)
    ELSE Ok(AdcValue(m, m.ac + op.val))

AdcWith(m, op) ==
    IF op.fault # "none" THEN Panic(op.fault, m)
    ELSE Ok(AdcValue(m, m.ac + op.val + StatusU8(m.sr, Carry)))

Adc(m, ins, chk) == AdcWith(m, ResolveOperand(m, ins, chk))

AndValue(m, newac) == [m EXCEPT !.ac = newac, !.sr = UpdateStatus(m.sr, newac)]

AndWith(m, op) ==
    IF op.fault # "none" THEN Panic(op.fault, m)
    ELSE Ok(AndValue(m, And8(m.ac, op.val)))

And(m, ins, chk) == AndWith(m, ResolveOperand(m, ins, chk))

\* value <<= 1 on u8
Shl1(value) == (value * 2) % 256

AslAccumulator(m) ==
    [m EXCEPT !.ac = Shl1(m.ac),
              !.sr = UpdateStatus(SetStatus(m.sr, Carry, m.ac \div 128 = 1), Shl1(m.ac))]

\* w is the result of self.bus.write(addr, value)
Stored(m, w, value) ==
    IF w.fault # "none" THEN Panic(w.fault, m)
    ELSE Ok([m EXCEPT !.bus = w.entries, !.sr = UpdateStatus(m.sr, value)])

\* AslValue storing the shifted value in AC instead of memory
AslValueIntoAc(m, addr, r) ==
    IF r.fault # "none" THEN Panic(r.fault, m)
    ELSE Ok([m EXCEPT !.ac = Shl1(r.val),
                      !.sr = UpdateStatus(SetStatus(m.sr, Carry, r.val \div 128 = 1),
                                          Shl1(r.val))])

\* r is the result of self.bus.read(addr)
AslValue(m, addr, r) ==
    IF r.fault # "none" THEN Panic(r.fault, m)
    ELSE Stored([m EXCEPT !.sr = SetStatus(m.sr, Carry, r.val \div 128 = 1)],
                BusWrite(m.bus, addr, Shl1(r.val)), Shl1(r.val))

AslAt(m, addr) ==
    IF addr.fault # "none" THEN Panic(addr.fault, m)
    ELSE AslValue(m, addr.val, BusRead(m.bus, addr.val))

Asl(m, ins, chk) ==
    IF ins.opcode.addressing = "Accumulator"
    THEN Ok(AslAccumulator(m))
    ELSE AslAt(m, ResolveAddress(m, ins, chk))

BranchIf(cond, m, ins, chk) == IF cond THEN Branch(m, ins, chk) ELSE Ok(m)

Bcc(m, ins, chk) == BranchIf(~Status(m.sr, Carry), m, ins, chk)
Bcs(m, ins, chk) == BranchIf(Status(m.sr, Carry), m, ins, chk)
Beq(m, ins, chk) == BranchIf(Status(m.sr, Zero), m, ins, chk)
Bmi(m, ins, chk) == BranchIf(Status(m.sr, Negative), m, ins, chk)
\* Bne branching when Zero is set
BneOnZero(m, ins, chk) == BranchIf(Status(m.sr, Zero), m, ins, chk)

Bne(m, ins, chk) == BranchIf(~Status(m.sr, Zero), m, ins, chk)
Bpl(m, ins, chk) == BranchIf(~Status(m.sr, Negative), m, ins, chk)

BitFlags(s, acv, value) ==
    SetStatus(SetStatus(SetStatus(s, Zero, And8(acv, value) = 0),
                        Overflow, BitOf(value, 6) # 0),
              Negative, BitOf(value, 7) # 0)

\* BitWith taking Overflow and Negative from AC & operand
BitWithMasked(m, op) ==
    IF op.fault # "none" THEN Panic(op.fault, m)
    ELSE Ok([m EXCEPT !.sr = BitFlags(m.sr, m.ac, And8(m.ac, op.val))])

BitWith(m, op) ==
    IF op.fault # "none" THEN Panic(op.fault, m)
    ELSE Ok([m EXCEPT !.sr = BitFlags(m.sr, m.ac, op.val)])

Bit(m, ins, chk) == BitWith(m, ResolveOperand(m, ins, chk))

\* prints the Cpu, changes nothing
Brk(m, ins, chk) == Ok(m)

Clc(m, ins, chk) == Ok([m EXCEPT !.sr = SetStatus(m.sr, Carry, FALSE)])
Cld(m, ins, chk) == Ok([m EXCEPT !.sr = SetStatus(m.sr, Decimal, FALSE)])

\* Cli clearing the Interrupt flag
CliClears(m, ins, chk) == Ok([m EXCEPT !.sr = SetStatus(m.sr, Interrupt, FALSE)])

Cli(m, ins, chk) == Ok([m EXCEPT !.sr = SetStatus(m.sr, Interrupt, TRUE)])

\* the body shared by cmp, cpx and cpy, on the register value reg
CompareFlags(s, reg, value) ==
    UpdateStatus(SetStatus(s, Carry, reg >= value), OverflowingSub8(reg, value))

Compare(reg, m, op) ==
    IF op.fault # "none" THEN Panic(op.fault, m)
    ELSE Ok([m EXCEPT !.sr = CompareFlags(m.sr, reg, op.val)])

Cmp(m, ins, chk) == Compare(m.ac, m, ResolveOperand(m, ins, chk))
\* Cpx comparing the accumulator
CpxOfAc(m, ins, chk) == Compare(m.ac, m, ResolveOperand(m, ins, chk))

Cpx(m, ins, chk) == Compare(m.x, m, ResolveOperand(m, ins, chk))
Cpy(m, ins, chk) == Compare(m.y, m, ResolveOperand(m, ins, chk))

\* DecValue writing the result at the address after addr
DecValueAtNext(m, addr, r) ==
    IF r.fault # "none" THEN Panic(r.fault, m)
    ELSE Stored(m, BusWrite(m.bus, addr + 1, OverflowingSub8(r.val, 1)),
                OverflowingSub8(r.val, 1))

DecValue(m, addr, r) ==
    IF r.fault # "none" THEN Panic(r.fault, m)
    ELSE Stored(m, BusWrite(m.bus, addr, OverflowingSub8(r.val, 1)),
                OverflowingSub8(r.val, 1))

DecAt(m, addr) ==
    IF addr.fault # "none" THEN Panic(addr.fault, m)
    ELSE DecValue(m, addr.val, BusRead(m.bus, addr.val))

Dec(m, ins, chk) == DecAt(m, ResolveAddress(m, ins, chk))

\* self.x -= 1; self.update_x()
DexWith(m, d) ==
    IF d.fault # "none" THEN Panic(d.fault, m)
    ELSE Ok([m EXCEPT !.x = d.val, !.sr = UpdateStatus(m.sr, d.val)])

Dex(m, ins, chk) == DexWith(m, Sub8(m.x, 1, chk))

\* self.x -= 1; self.update_y()
DeyWith(m, d) ==
    IF d.fault # "none" THEN Panic(d.fault, m)
    ELSE Ok([m EXCEPT !.x = d.val, !.sr = UpdateStatus(m.sr, m.y)])

Dey(m, ins, chk) == DeyWith(m, Sub8(m.x, 1, chk))

\* JmpTo adding the address to pc
JmpToRelative(m, addr) ==
    IF addr.fault # "none" THEN Panic(addr.fault, m)
    ELSE Ok([m EXCEPT !.pc = (m.pc + addr.val) % 65536])

JmpTo(m, addr) ==
    IF addr.fault # "none" THEN Panic(addr.fault, m)
    ELSE Ok([m EXCEPT !.pc = addr.val])

Jmp(m, ins, chk) == JmpTo(m, ResolveAddress(m, ins, chk))

\* Cpu::execute
Execute(m, ins, chk) ==
    LET id == ins.opcode.id
    IN  CASE id = "ADC" -> Adc(m, ins, chk)
          [] id = "AND" -> And(m, ins, chk)
          [] id = "ASL" -> Asl(m, ins, chk)
          [] id = "BCC" -> Bcc(m, ins, chk)
          [] id = "BCS" -> Bcs(m, ins, chk)
          [] id = "BEQ" -> Beq(m, ins, chk)
          [] id = "BIT" -> Bit(m, ins, chk)
          [] id = "BMI" -> Bmi(m, ins, chk)
          [] id = "BNE" -> Bne(m, ins, chk)
          [] id = "BPL" -> Bpl(m, ins, chk)
          [] id = "BRK" -> Brk(m, ins, chk)
          [] id = "CLC" -> Clc(m, ins, chk)
          [] id = "CLD" -> Cld(m, ins, chk)
          [] id = "CLI" -> Cli(m, ins, chk)
          [] id = "CMP" -> Cmp(m, ins, chk)
          [] id = "CPX" -> Cpx(m, ins, chk)
          [] id = "CPY" -> Cpy(m, ins, chk)
          [] id = "DEC" -> Dec(m, ins, chk)
          [] id = "DEX" -> Dex(m, ins, chk)
          [] id = "DEY" -> Dey(m, ins, chk)
          [] id = "JMP" -> Jmp(m, ins, chk)
          [] OTHER -> Panic("not_yet_implemented", m)

\* self.pc += instruction.opcode.bytes as u16
AdvancePc(m, ins, chk) == BranchTo(m, Add16(m.pc, ins.opcode.bytes, chk))

\* the result of a step: the panic if any, the Cpu and the instruction decoded
Stepped(r, ins) == [fault |-> r.fault, m |-> r.m, ins |-> ins]

\* self.execute(&instruction), adv the Cpu after pc += bytes
ExecuteAdvanced(adv, m, ins, chk) ==
    IF adv.fault # "none" THEN Stepped(Panic(adv.fault, m), ins)
    ELSE Stepped(Execute(adv.m, ins, chk), ins)

StepWith(m, ins, chk) ==
    IF ins.fault # "none" THEN Stepped(Panic(ins.fault, m), ins)
    ELSE ExecuteAdvanced(AdvancePc(m, ins, chk), m, ins, chk)

\* Cpu::step
StepCpu(m, chk) == StepWith(m, CurrentInstruction(m, chk), chk)

\* Cpu::reset
ResetWith(m, v) ==
    IF v.fault # "none" THEN Panic(v.fault, m)
    ELSE Ok([m EXCEPT !.pc = v.val, !.sr = 52])

ResetCpu(m) == ResetWith(m, BusReadU16(m.bus, 65532))

----------------------------------------------------------------------------
(* The inputs of the model *)

\* Backends handed to Cpu::attach_backend: (contents, name, start address)
CpuBackends ==
    { \* the reset vector, pointing at 0x8000
      [name |-> "VEC", start |-> 65532, data |-> <<0, 128>>],
      \* one byte of ROM right below the reset vector (0xFFFB)
      [name |-> "PAD", start |-> 65531, data |-> <<234>>],
      \* 0x8000: JMP $1234
      [name |-> "JMP", start |-> 32768, data |-> <<76, 52, 18>>],
      \* 0x8000: BNE -5; BPL +2; BEQ +2; BCC -4; BCS +2; BMI -2;
      \* 0x800C: ASL $8011,X; BRK; 0x8010: a byte that is no opcode;
      \* 0x8011: the data 0xC0
      [name |-> "BRANCH", start |-> 32768,
       data |-> <<208, 251, 16, 2, 240, 2, 144, 252, 176, 2, 48, 254,
                  30, 17, 128, 0, 255, 192>>],
      \* 0x0000: CLI; ADC #$43; BIT $10; ASL A; CLC; ASL $11; DEC $12,X;
      \*         AND #$0F; CLD; BIT $12;
      \* 0x0010: the data 0x84, 0x81, 0x00, 0x00
      [name |-> "OPS", start |-> 0,
       data |-> <<88, 105, 67, 36, 16, 10, 24, 6, 17, 214, 18, 41, 15, 216,
                  36, 18, 132, 129, 0, 0>>],
      \* 0x0000: JMP ($0003); 0x0003: the pointer 0x0005;
      \* 0x0005: ADC #$FF; ADC #$01; ADC #$0F; CMP #$20; CPX #$00; CPY #$01;
      \*         DEX; DEY; CPX #$FE
      [name |-> "LOW", start |-> 0,
       data |-> <<108, 3, 0, 5, 0, 105, 255, 105, 1, 105, 15, 201, 32,
                  224, 0, 192, 1, 202, 136, 224, 254>>] }

\* the flags and states the host hands to Cpu::set_status: those that the
\* instructions read
StatusInputs == {Carry, Zero, Negative} \X BOOLEAN

\* Backends attached to a Bus used on its own
BusBackends ==
    { [name |-> "A", start |-> 16, data |-> <<1, 2, 3, 4>>],
      \* right after A
      [name |-> "B", start |-> 20, data |-> <<5, 6>>],
      \* overlapping A and B
      [name |-> "C", start |-> 18, data |-> <<7, 8, 9>>],
      \* start + size exceeds 0xFFFF
      [name |-> "TOP", start |-> 65532, data |-> <<10, 11, 12, 13>>] }

BusAddrs == {15, 16, 18, 19, 20, 21, 22, 23, 65533}
WriteValues == {170}
WriteValues16 == {48076, 255}

----------------------------------------------------------------------------
(* The state machine *)

Cpu == [pc |-> pc, ac |-> ac, x |-> x, y |-> y, sp |-> sp, sr |-> sr, bus |-> bus]

\* the record of an operation: its name, the operation before it, its
\* address and value arguments,
\* its result, the backend accesses it made, the instruction it decoded and
\* the Cpu before it ran
Record(op, a, v, res, acc, ins) ==
    [op |-> op, prev |-> last.op, a |-> a, v |-> v, res |-> res, acc |-> acc,
     ins |-> [opcode |-> ins.opcode, operand |-> ins.operand], pre |-> Cpu]

\* Cpu::new (cpu.rs:31-41), Bus::new (bus.rs:15-17)
Init ==
    /\ pc = 0 /\ ac = 0 /\ x = 0 /\ y = 0 /\ sp = 0 /\ sr = 0
    /\ bus = <<>>
    /\ fault = "none"
    /\ overflow_checks \in BOOLEAN
    /\ last = [op |-> "new", prev |-> "new", a |-> 0, v |-> 0, res |-> 0, acc |-> <<>>,
               ins |-> NoIns,
               pre |-> [pc |-> 0, ac |-> 0, x |-> 0, y |-> 0, sp |-> 0,
                        sr |-> 0, bus |-> <<>>]]
    /\ nsteps = 0 /\ nsets = 0 /\ nwrites = 0

Running == fault = "none"

\* the Cpu becomes m, the run goes on or ends with the panic f
Becomes(m, f) ==
    /\ pc' = m.pc /\ ac' = m.ac /\ x' = m.x /\ y' = m.y /\ sp' = m.sp
    /\ sr' = m.sr /\ bus' = m.bus
    /\ fault' = f
    /\ UNCHANGED overflow_checks

\* BusEntry::new followed by Bus::attach / Cpu::attach_backend
Attach(b) ==
    LET e == BusEntryNew(b.data, b.name, b.start, overflow_checks)
    IN  /\ Running
        /\ Len(bus) < MaxEntries
        /\ IF e.fault # "none"
           THEN Becomes(Cpu, e.fault)
           ELSE Becomes([Cpu EXCEPT !.bus = Append(bus, e.entry)], "none")
        /\ last' = Record("attach", b.start, Len(b.data), 0, <<>>, NoIns)
        /\ UNCHANGED <<nsteps, nsets, nwrites>>

AttachBackend == \E b \in CpuBackends : Attach(b)

\* r is the outcome of the operation
Outcome(r, rec) ==
    /\ Becomes(r.m, r.fault)
    /\ last' = rec

Reset ==
    /\ Running
    /\ Outcome(ResetCpu(Cpu), Record("reset", 65532, 0, 0, <<>>, NoIns))
    /\ UNCHANGED <<nsteps, nsets, nwrites>>

StepOutcome(r) == Outcome(r, Record("step", pc, 0, 0, <<>>, r.ins))

Step ==
    /\ Running
    /\ nsteps < MaxSteps
    /\ StepOutcome(StepCpu(Cpu, overflow_checks))
    /\ nsteps' = nsteps + 1
    /\ UNCHANGED <<nsets, nwrites>>

\* Cpu::set_status called by the host
SetStatusCall ==
    \E in \in StatusInputs :
        /\ Running
        /\ nsets < MaxSets
        /\ Becomes([Cpu EXCEPT !.sr = SetStatus(sr, in[1], in[2])], "none")
        /\ last' = Record("set_status", in[1], IF in[2] THEN 1 ELSE 0, 0, <<>>, NoIns)
        /\ nsets' = nsets + 1
        /\ UNCHANGED <<nsteps, nwrites>>

Next == AttachBackend \/ Reset \/ Step \/ SetStatusCall

Spec == Init /\ [][Next]_vars

----------------------------------------------------------------------------
(* The Bus used on its own: attach, read, read_u16, write, write_u16, clear *)

BusAttach == \E b \in BusBackends : Attach(b)

Read ==
    \E addr \in BusAddrs :
        LET r == BusRead(bus, addr)
        IN  /\ Running
            /\ Becomes(Cpu, r.fault)
            /\ last' = Record("read", addr, 0, r.val, r.acc, NoIns)
            /\ UNCHANGED <<nsteps, nsets, nwrites>>

ReadU16 ==
    \E addr \in BusAddrs :
        LET r == BusReadU16(bus, addr)
        IN  /\ Running
            /\ Becomes(Cpu, r.fault)
            /\ last' = Record("read_u16", addr, 0, r.val, r.acc, NoIns)
            /\ UNCHANGED <<nsteps, nsets, nwrites>>

Write ==
    \E addr \in BusAddrs, value \in WriteValues :
        LET w == BusWrite(bus, addr, value)
        IN  /\ Running
            /\ nwrites < MaxWrites
            /\ Becomes([Cpu EXCEPT !.bus = w.entries], w.fault)
            /\ last' = Record("write", addr, value, 0, w.acc, NoIns)
            /\ nwrites' = nwrites + 1
            /\ UNCHANGED <<nsteps, nsets>>

WriteU16 ==
    \E addr \in BusAddrs, value \in WriteValues16 :
        LET w == BusWriteU16(bus, addr, value)
        IN  /\ Running
            /\ nwrites < MaxWrites
            /\ Becomes([Cpu EXCEPT !.bus = w.entries], w.fault)
            /\ last' = Record("write_u16", addr, value, 0, w.acc, NoIns)
            /\ nwrites' = nwrites + 1
            /\ UNCHANGED <<nsteps, nsets>>

\* Bus::clear
Clear ==
    /\ Running
    /\ bus # <<>>
    /\ Becomes([Cpu EXCEPT !.bus = <<>>], "none")
    /\ last' = Record("clear", 0, 0, 0, <<>>, NoIns)
    /\ UNCHANGED <<nsteps, nsets, nwrites>>

NextBus == BusAttach \/ Read \/ ReadU16 \/ Write \/ WriteU16 \/ Clear

SpecBus == Init /\ [][NextBus]_vars

----------------------------------------------------------------------------
(* The Cpu with Cpu::set_status called on any of the seven flags, over the  *)
(* programs that change flags: attach_backend, reset, step, set_status.     *)

StatusBackends == {b \in CpuBackends : b.name \in {"VEC", "JMP", "OPS"}}

AttachStatus == \E b \in StatusBackends : Attach(b)

\* Cpu::set_status(bit, state) called by the host
SetStatusTo(bit, state) ==
    /\ Running
    /\ nsets < MaxSets
    /\ Becomes([Cpu EXCEPT !.sr = SetStatus(sr, bit, state)], "none")
    /\ last' = Record("set_status", bit, IF state THEN 1 ELSE 0, 0, <<>>, NoIns)
    /\ nsets' = nsets + 1
    /\ UNCHANGED <<nsteps, nwrites>>

SetStatusAny == \E bit \in StatusBits, state \in BOOLEAN : SetStatusTo(bit, state)

NextStatus == AttachStatus \/ Reset \/ Step \/ SetStatusAny

SpecStatus == Init /\ [][NextStatus]_vars

----------------------------------------------------------------------------
(* Cpu::resolve_address on its own: a function of the index registers, the  *)
(* memory and the instruction (its addressing mode and operand).            *)

\* values of the index registers X and Y
IndexValues == {0, 2, 255}

\* the addressing modes that add an index register
IndexedModes ==
    {"ZeroPageX", "ZeroPageY", "IndirectX", "AbsoluteX", "AbsoluteY", "IndirectY"}

\* operands of a 2-byte instruction (a zero-extended byte) and of a 3-byte one
ZeroPageOperands == {1, 4, 255}
AbsoluteOperands == {16, 65534, 65535}

OperandsOf(mode) ==
    IF mode \in {"AbsoluteX", "AbsoluteY"} THEN AbsoluteOperands ELSE ZeroPageOperands

\* memory at 0x0000: the pointers 0x1234 at 0x0001 and 0xFFFF at 0x0004
PointerData == <<0, 52, 18, 0, 255, 255, 7, 0>>

\* a Cpu with the memory attached and any index registers
InitResolve ==
    /\ pc = 0 /\ ac = 0 /\ sp = 0 /\ sr = 0
    /\ x \in IndexValues /\ y \in IndexValues
    /\ overflow_checks \in BOOLEAN
    /\ bus = <<BusEntryNew(PointerData, "ZP", 0, FALSE).entry>>
    /\ fault = "none"
    /\ last = [op |-> "new", prev |-> "new", a |-> 0, v |-> 0, res |-> 0, acc |-> <<>>,
               ins |-> NoIns,
               pre |-> [pc |-> 0, ac |-> 0, x |-> 0, y |-> 0, sp |-> 0,
                        sr |-> 0, bus |-> <<>>]]
    /\ nsteps = 0 /\ nsets = 0 /\ nwrites = 0

\* the instruction handed to resolve_address
Indexed(mode, operand) ==
    [opcode |-> [id |-> "none", addressing |-> mode, bytes |-> 0], operand |-> operand]

\* r is the result of self.resolve_address(&instruction)
Resolved(r, ins) ==
    /\ Running
    /\ Becomes(Cpu, r.fault)
    /\ last' = Record("resolve_address", ins.operand, 0, r.val, <<>>, ins)
    /\ UNCHANGED <<nsteps, nsets, nwrites>>

ResolveAddressCall ==
    \E mode \in IndexedModes :
        \E operand \in OperandsOf(mode) :
            Resolved(ResolveAddress(Cpu, Indexed(mode, operand), overflow_checks),
                     Indexed(mode, operand))

NextResolve == ResolveAddressCall

SpecResolve == InitResolve /\ [][NextResolve]_vars

----------------------------------------------------------------------------
(* The address ranges as the specification states them: an entry owns the  *)
(* addresses start .. start + size - 1, size being the backend's size.     *)

SpecContains(entry, addr) ==
    entry.start <= addr /\ addr <= entry.start + RamSize(entry.data) - 1

\* the first entry, in insertion order, whose stated range holds addr; 0 if none
SpecOwner(entries, addr) ==
    LET hits == {i \in 1..Len(entries) : SpecContains(entries[i], addr)}
    IN  IF hits = {} THEN 0 ELSE Min(hits)

\* addr is the last address of the stated range of its owner
SpecLast(entries, addr) ==
    LET o == SpecOwner(entries, addr)
    IN  o # 0 /\ addr = entries[o].start + RamSize(entries[o].data) - 1

\* the byte the owner of addr holds for it
SpecByte(entries, addr) ==
    LET o == SpecOwner(entries, addr)
    IN  entries[o].data[addr - entries[o].start + 1]

----------------------------------------------------------------------------
(* Claims *)

\* C1 (bus routing): Bus.read(a) and Bus.write(a, v) are served by the first
\* entry in insertion order whose range [start, start + size - 1] holds a,
\* with one backend access at offset a - start < size; when no range holds a
\* the call fails fatally and no backend is accessed.
C1_BusRouting ==
    last.op \in {"read", "write"} =>
        LET o == SpecOwner(last.pre.bus, last.a)
        IN  IF o = 0
            THEN fault # "none" /\ last.acc = <<>>
            ELSE /\ last.acc = <<[entry |-> o, off |-> last.a - last.pre.bus[o].start]>>
                 /\ last.a - last.pre.bus[o].start < RamSize(last.pre.bus[o].data)

\* C2 (entry range): every entry BusEntry::new builds has
\* end = start + size - 1; so with two entries attached back to back an
\* access at the second entry's start is served by the second entry at
\* offset 0, never by the first.
C2_EntryEnd ==
    /\ \A i \in 1..Len(bus) : bus[i].end = bus[i].start + RamSize(bus[i].data) - 1
    /\ (/\ last.op \in {"read", "write"}
        /\ Len(last.pre.bus) = 2
        /\ last.pre.bus[2].start = last.pre.bus[1].start + RamSize(last.pre.bus[1].data)
        /\ last.a = last.pre.bus[2].start)
       => last.acc = <<[entry |-> 2, off |-> 0]>>

\* C3 (16-bit composition): for a mapped address a that is not the last
\* address of its owner's range, read_u16(a) succeeds and equals
\* read(a) | (read(a + 1) << 8), and after write_u16(a, v) a read_u16(a)
\* returns v.
C3_Composition ==
    (/\ last.op \in {"read_u16", "write_u16"}
     /\ SpecOwner(last.pre.bus, last.a) # 0
     /\ ~SpecLast(last.pre.bus, last.a))
    => /\ fault = "none"
       /\ last.op = "read_u16" =>
            /\ BusRead(bus, last.a).fault = "none"
            /\ BusRead(bus, last.a + 1).fault = "none"
            /\ last.res = BusRead(bus, last.a).val + 256 * BusRead(bus, last.a + 1).val
       /\ last.op = "write_u16" =>
            /\ BusReadU16(bus, last.a).fault = "none"
            /\ BusReadU16(bus, last.a).val = last.v
            /\ BusRead(bus, last.a).val = last.v % 256
            /\ BusRead(bus, last.a + 1).val = last.v \div 256

\* C4 (unaligned 16-bit access): read_u16(a) and write_u16(a, v) fail fatally
\* when a is the last address of its owner's range, and the failing
\* write_u16 has written nothing.
C4_Unaligned ==
    (/\ last.op \in {"read_u16", "write_u16"}
     /\ SpecLast(last.pre.bus, last.a))
    => /\ fault # "none"
       /\ bus = last.pre.bus

----------------------------------------------------------------------------
(* Claims about the Cpu.  In a state reached by a step, last.pre is the    *)
(* Cpu before the step and last.ins the instruction the step decoded (its  *)
(* opcode is NoOpCode when decoding failed).                               *)

StepOf(ids) == last.op = "step" /\ last.ins.opcode.id \in ids

\* the Cpu before the step, with pc past the instruction
Advanced == [last.pre EXCEPT !.pc = (last.pre.pc + last.ins.opcode.bytes) % 65536]

\* the operand byte of the instruction of the last step
OperandByte == ResolveOperand(Advanced, last.ins, FALSE).val

\* v as a signed 8-bit number
Signed8(v) == IF v >= 128 THEN v - 256 ELSE v

BranchIds == {"BCC", "BCS", "BEQ", "BMI", "BNE", "BPL"}

\* the flag test of the branch id holds in status register s
Taken(id, s) ==
    CASE id = "BCC" -> BitOf(s, Carry) = 0
      [] id = "BCS" -> BitOf(s, Carry) = 1
      [] id = "BEQ" -> BitOf(s, Zero) = 1
      [] id = "BNE" -> BitOf(s, Zero) = 0
      [] id = "BMI" -> BitOf(s, Negative) = 1
      [] id = "BPL" -> BitOf(s, Negative) = 0

\* C5 (reset): when 0xFFFC and 0xFFFD are served by a backend, reset() sets pc
\* to read(0xFFFC) | (read(0xFFFD) << 8) and sr to 0x34 and changes neither
\* AC, X, Y, SP nor memory.
C5_Reset ==
    (/\ last.op = "reset"
     /\ SpecOwner(last.pre.bus, 65532) # 0
     /\ SpecOwner(last.pre.bus, 65533) # 0)
    => /\ fault = "none"
       /\ pc = SpecByte(last.pre.bus, 65532) + 256 * SpecByte(last.pre.bus, 65533)
       /\ sr = 52
       /\ ac = last.pre.ac /\ x = last.pre.x /\ y = last.pre.y /\ sp = last.pre.sp
       /\ bus = last.pre.bus

\* C6 (relative branch): a taken branch fetched at p with operand byte b ends
\* the step, without failing, with pc = (p + 2 + signed8(b)) mod 2^16.
C6_BranchTarget ==
    (StepOf(BranchIds) /\ Taken(last.ins.opcode.id, last.pre.sr))
    => /\ fault = "none"
       /\ pc = (last.pre.pc + 2 + Signed8(last.ins.operand) + 65536) % 65536

\* C7 (JMP): a JMP step that completes sets pc to the resolved address (the
\* operand for Absolute, the 16-bit value stored at the operand for Indirect)
\* and changes no other register, flag or memory byte; and with the bytes
\* 4C 34 12 of one backend at 0x8000, reset() then step() ends with
\* pc = 0x1234.
C7_Jmp ==
    /\ (StepOf({"JMP"}) /\ fault = "none")
       => /\ last.ins.opcode.addressing = "Absolute" => pc = last.ins.operand
          /\ last.ins.opcode.addressing = "Indirect" =>
                pc = BusRead(last.pre.bus, last.ins.operand).val
                     + 256 * BusRead(last.pre.bus, last.ins.operand + 1).val
          /\ ac = last.pre.ac /\ x = last.pre.x /\ y = last.pre.y
          /\ sp = last.pre.sp /\ sr = last.pre.sr
          /\ bus = last.pre.bus
    /\ (/\ last.op = "step" /\ last.prev = "reset" /\ last.pre.pc = 32768
        /\ BusRead(last.pre.bus, 32768).fault = "none"
        /\ BusRead(last.pre.bus, 32769).fault = "none"
        /\ BusRead(last.pre.bus, 32770).fault = "none"
        /\ BusRead(last.pre.bus, 32768).val = 76
        /\ BusRead(last.pre.bus, 32769).val = 52
        /\ BusRead(last.pre.bus, 32770).val = 18
        /\ Backend(last.pre.bus, 32768) = Backend(last.pre.bus, 32769)
        /\ Backend(last.pre.bus, 32768) = Backend(last.pre.bus, 32770))
       => (fault = "none" /\ pc = 4660)

\* reset() then step() over JMP $1234 at 0x8000 has ended with pc = 0x1234
C7_Witness ==
    /\ last.op = "step" /\ last.prev = "reset" /\ fault = "none"
    /\ last.pre.pc = 32768 /\ last.ins.opcode.id = "JMP" /\ last.ins.operand = 4660
    /\ pc = 4660

\* C8 (DEX/DEY): a DEX step decrements X and sets Zero/Negative from the new
\* X, leaving Y unchanged; a DEY step decrements Y and sets Zero/Negative
\* from the new Y, leaving X unchanged.
C8_DexDey ==
    /\ (StepOf({"DEX"}) /\ fault = "none")
       => /\ x = (last.pre.x + 255) % 256
          /\ y = last.pre.y
          /\ BitOf(sr, Zero) = (IF x = 0 THEN 1 ELSE 0)
          /\ BitOf(sr, Negative) = BitOf(x, 7)
    /\ (StepOf({"DEY"}) /\ fault = "none")
       => /\ y = (last.pre.y + 255) % 256
          /\ x = last.pre.x
          /\ BitOf(sr, Zero) = (IF y = 0 THEN 1 ELSE 0)
          /\ BitOf(sr, Negative) = BitOf(y, 7)

\* C9 (ADC): an ADC step sets AC to (AC + operand + c) mod 256, Carry to
\* (AC + operand + c > 0xFF), Zero to (new AC = 0) and Negative to bit 7 of
\* the new AC; the Overflow flag, X, Y, SP and memory stay as they were.
C9_Adc ==
    (StepOf({"ADC"}) /\ fault = "none")
    => LET sum == last.pre.ac + OperandByte + BitOf(last.pre.sr, Carry)
       IN  /\ ac = sum % 256
           /\ BitOf(sr, Carry) = (IF sum > 255 THEN 1 ELSE 0)
           /\ BitOf(sr, Zero) = (IF ac = 0 THEN 1 ELSE 0)
           /\ BitOf(sr, Negative) = BitOf(ac, 7)
           /\ BitOf(sr, Overflow) = BitOf(last.pre.sr, Overflow)
           /\ x = last.pre.x /\ y = last.pre.y /\ sp = last.pre.sp
           /\ pc = last.pre.pc + last.ins.opcode.bytes
           /\ bus = last.pre.bus

\* ADC with AC = 0xFF, operand 0x01 and Carry = 0 has given AC = 0, Carry, Zero
C9_Witness ==
    /\ StepOf({"ADC"}) /\ fault = "none"
    /\ last.pre.ac = 255 /\ OperandByte = 1 /\ BitOf(last.pre.sr, Carry) = 0
    /\ ac = 0 /\ BitOf(sr, Carry) = 1 /\ BitOf(sr, Zero) = 1

\* the register the compare instruction id reads, before the step
CompareRegister(id) ==
    CASE id = "CMP" -> last.pre.ac
      [] id = "CPX" -> last.pre.x
      [] id = "CPY" -> last.pre.y

\* C10 (CMP/CPX/CPY): with r the register and m the operand, the step sets
\* Carry to (r >= m), Zero to (r = m) and Negative to bit 7 of (r - m) mod 256
\* and leaves AC, X, Y and memory unchanged.
C10_Compare ==
    (StepOf({"CMP", "CPX", "CPY"}) /\ fault = "none")
    => LET r == CompareRegister(last.ins.opcode.id)
           m == OperandByte
       IN  /\ BitOf(sr, Carry) = (IF r >= m THEN 1 ELSE 0)
           /\ BitOf(sr, Zero) = (IF r = m THEN 1 ELSE 0)
           /\ BitOf(sr, Negative) = BitOf((r - m + 256) % 256, 7)
           /\ ac = last.pre.ac /\ x = last.pre.x /\ y = last.pre.y
           /\ bus = last.pre.bus

\* CMP with AC = 0x10 and operand 0x20 has given Carry = 0, Negative = 1
C10_Witness ==
    /\ StepOf({"CMP"}) /\ fault = "none"
    /\ last.pre.ac = 16 /\ OperandByte = 32
    /\ BitOf(sr, Carry) = 0 /\ BitOf(sr, Negative) = 1

----------------------------------------------------------------------------
(* Claims about address resolution *)

\* the 16-bit little-endian value the memory holds at addr and addr + 1
Word(entries, addr) == SpecByte(entries, addr) + 256 * SpecByte(entries, addr + 1)

WordMapped(entries, addr) ==
    SpecOwner(entries, addr) # 0 /\ SpecOwner(entries, addr + 1) # 0

----------------------------------------------------------------------------
(* Claims about the instructions *)

\* the address the instruction of the last step resolves
OperandAddress == ResolveAddress(Advanced, last.ins, FALSE).val

\* the byte the memory now holds at the resolved address
StoredByte == BusRead(bus, OperandAddress).val

MemoryMode == last.ins.opcode.addressing \notin {"Accumulator", "Implied", "Immediate"}

\* the 8-bit result of the instruction of the last step: the value written to
\* the register or to memory, or the comparison difference
Result(id) ==
    CASE id \in {"ADC", "AND"} -> ac
      [] id = "ASL" -> IF MemoryMode THEN StoredByte ELSE ac
      [] id = "DEC" -> StoredByte
      [] id \in {"CMP", "CPX", "CPY"} -> (CompareRegister(id) - OperandByte + 256) % 256
      [] id = "DEX" -> (last.pre.x + 255) % 256
      [] id = "DEY" -> (last.pre.y + 255) % 256

NZIds == {"ADC", "AND", "ASL", "CMP", "CPX", "CPY", "DEC", "DEX", "DEY"}

\* C12 (flag derivation): after a step of an NZ-updating instruction with
\* 8-bit result r, status(Zero) = (r = 0) and status(Negative) = (bit 7 of r).
C12_FlagsNZ ==
    (StepOf(NZIds) /\ fault = "none")
    => LET r == Result(last.ins.opcode.id)
       IN  /\ Status(sr, Zero) = (r = 0)
           /\ Status(sr, Negative) = (BitOf(r, 7) = 1)

\* C13 (branch frame): a step of BCC/BCS/BEQ/BMI/BNE/BPL changes neither the
\* status register, AC, X, Y, SP nor memory; a step that completes has taken
\* the branch exactly when the flag test of the instruction holds, and ends
\* with pc = fetch address + 2 when it has not.
C13_BranchFrame ==
    StepOf(BranchIds) =>
        LET taken == Taken(last.ins.opcode.id, last.pre.sr)
            next == (last.pre.pc + 2) % 65536
        IN  /\ sr = last.pre.sr /\ ac = last.pre.ac /\ x = last.pre.x
            /\ y = last.pre.y /\ sp = last.pre.sp /\ bus = last.pre.bus
            /\ fault = "none" =>
                 /\ ~taken => pc = next
                 /\ taken => pc = (next + Signed8(last.ins.operand) + 65536) % 65536
                 /\ pc # next => taken

\* BEQ +2 at 0x8004 with Zero set has been taken to 0x8008, flags unchanged
C13_Witness ==
    /\ StepOf({"BEQ"}) /\ fault = "none"
    /\ last.pre.pc = 32772 /\ Status(last.pre.sr, Zero)
    /\ pc = 32776 /\ sr = last.pre.sr

\* BNE -5 at 0x8000 with Zero set has not been taken: pc = 0x8002
C13_NotTaken ==
    /\ StepOf({"BNE"}) /\ fault = "none"
    /\ last.pre.pc = 32768 /\ Status(last.pre.sr, Zero)
    /\ pc = 32770 /\ sr = last.pre.sr

\* the byte the bus serves at the fetch address of the last step
FetchedByte == BusRead(last.pre.bus, last.pre.pc)

\* the fetch of the last step found no instruction: pc unmapped, or a byte
\* that is no opcode
NoInstruction ==
    FetchedByte.fault # "none" \/ OpCodeGet(FetchedByte.val) = NoOpCode

\* the operand bytes of the instruction of the last step were readable
OperandFetched ==
    CASE last.ins.opcode.bytes = 1 -> TRUE
      [] last.ins.opcode.bytes = 2 ->
            BusRead(last.pre.bus, last.pre.pc + 1).fault = "none"
      [] last.ins.opcode.bytes = 3 ->
            BusReadU16(last.pre.bus, last.pre.pc + 1).fault = "none"
      [] OTHER -> FALSE

\* C14 (decode): the instruction a step decodes has operand 0 for a 1-byte
\* opcode, the byte at pc + 1 for a 2-byte opcode and the little-endian
\* 16-bit value at pc + 1, pc + 2 for a 3-byte opcode; when decoding fails
\* (pc unmapped, or the byte at pc no opcode) the step ends in the fatal
\* error state with pc, AC, X, Y, SP, status and memory unchanged.
C14_Decode ==
    last.op = "step" =>
        /\ (~NoInstruction /\ OperandFetched) =>
             /\ last.ins.opcode = OpCodeGet(FetchedByte.val)
             /\ last.ins.opcode.bytes = 1 => last.ins.operand = 0
             /\ last.ins.opcode.bytes = 2 =>
                    last.ins.operand = BusRead(last.pre.bus, last.pre.pc + 1).val
             /\ last.ins.opcode.bytes = 3 =>
                    last.ins.operand = BusRead(last.pre.bus, last.pre.pc + 1).val
                                       + 256 * BusRead(last.pre.bus, last.pre.pc + 2).val
        /\ NoInstruction =>
             /\ fault # "none"
             /\ Cpu = last.pre

\* a step at 0x8010, which holds 0xFF, has ended in the fatal error state
\* with the Cpu unchanged
C14_Witness ==
    /\ last.op = "step" /\ fault = "invalid_opcode"
    /\ last.pre.pc = 32784 /\ FetchedByte.val = 255
    /\ Cpu = last.pre

\* the flag a flag-control instruction writes, and the state it gives it
ControlledBit(id) ==
    CASE id = "CLC" -> Carry
      [] id = "CLD" -> Decimal
      [] id = "CLI" -> Interrupt

\* the status register s without its bit
Without(s, bit) == s - BitOf(s, bit) * Pow2(bit)

\* C15 (flag control): a CLC step clears Carry, a CLD step clears Decimal and
\* a CLI step sets Interrupt; the step changes no other status bit, no
\* register other than pc, which advances by 1, and no memory.
C15_FlagControl ==
    StepOf({"CLC", "CLD", "CLI"}) =>
        LET bit == ControlledBit(last.ins.opcode.id)
        IN  /\ fault = "none"
            /\ Status(sr, bit) = (last.ins.opcode.id = "CLI")
            /\ Without(sr, bit) = Without(last.pre.sr, bit)
            /\ pc = last.pre.pc + 1
            /\ ac = last.pre.ac /\ x = last.pre.x /\ y = last.pre.y
            /\ sp = last.pre.sp /\ bus = last.pre.bus

\* CLI with Interrupt clear has set it
C15_Witness ==
    /\ StepOf({"CLI"}) /\ fault = "none"
    /\ ~Status(last.pre.sr, Interrupt) /\ Status(sr, Interrupt)

\* the backend bytes, as <<entry, offset>>, in which the memories b1 and b2 differ
ChangedBytes(b1, b2) ==
    {eo \in UNION {{<<i, o>> : o \in 0..(Len(b1[i].data) - 1)} : i \in 1..Len(b1)} :
        b2[eo[1]].data[eo[2] + 1] # b1[eo[1]].data[eo[2] + 1]}

\* the memories b1 and b2 have the same backends at the same addresses
SameLayout(b1, b2) ==
    /\ Len(b1) = Len(b2)
    /\ \A i \in 1..Len(b1) :
          /\ b1[i].start = b2[i].start /\ b1[i].end = b2[i].end
          /\ b1[i].name = b2[i].name /\ Len(b1[i].data) = Len(b2[i].data)

\* the backend byte that serves addr
ByteAt(entries, addr) ==
    <<Backend(entries, addr), addr - entries[Backend(entries, addr)].start>>

\* C16 (ASL): in Accumulator mode the step sets Carry to the old bit 7 of AC
\* and AC to (AC * 2) mod 256, memory unchanged; in a memory mode it sets
\* Carry to the old bit 7 of the byte at the resolved address, writes
\* (byte * 2) mod 256 to that address and leaves AC and every other memory
\* byte unchanged; Zero/Negative follow the shifted value.
C16_Asl ==
    (StepOf({"ASL"}) /\ fault = "none")
    => IF last.ins.opcode.addressing = "Accumulator"
       THEN /\ Status(sr, Carry) = (BitOf(last.pre.ac, 7) = 1)
            /\ ac = (last.pre.ac * 2) % 256
            /\ bus = last.pre.bus
            /\ Status(sr, Zero) = (ac = 0)
            /\ Status(sr, Negative) = (BitOf(ac, 7) = 1)
       ELSE LET old == BusRead(last.pre.bus, OperandAddress).val
                new == (old * 2) % 256
            IN  /\ Status(sr, Carry) = (BitOf(old, 7) = 1)
                /\ StoredByte = new
                /\ ac = last.pre.ac
                /\ SameLayout(last.pre.bus, bus)
                /\ ChangedBytes(last.pre.bus, bus) \subseteq {ByteAt(last.pre.bus, OperandAddress)}
                /\ Status(sr, Zero) = (new = 0)
                /\ Status(sr, Negative) = (BitOf(new, 7) = 1)

\* ASL $11 over the byte 0x81 has stored 0x02 at 0x0011 and set Carry
C16_Witness ==
    /\ StepOf({"ASL"}) /\ fault = "none" /\ last.ins.opcode.addressing = "ZeroPage"
    /\ OperandAddress = 17
    /\ BusRead(last.pre.bus, 17).val = 129 /\ BusRead(bus, 17).val = 2
    /\ Status(sr, Carry) /\ ~Status(sr, Zero) /\ ~Status(sr, Negative)

\* ASL A over AC = 0x43 has given AC = 0x86, Carry clear, Negative set
C16_Accumulator ==
    /\ StepOf({"ASL"}) /\ fault = "none" /\ last.ins.opcode.addressing = "Accumulator"
    /\ last.pre.ac = 67 /\ ac = 134 /\ Status(last.pre.sr, Carry)
    /\ ~Status(sr, Carry) /\ Status(sr, Negative)

\* C17 (BIT): with m the operand, a BIT step sets Zero to ((AC & m) = 0),
\* Overflow to bit 6 of m and Negative to bit 7 of m, and leaves AC, X, Y,
\* Carry and memory unchanged.
C17_Bit ==
    (StepOf({"BIT"}) /\ fault = "none")
    => LET m == OperandByte
       IN  /\ Status(sr, Zero) = (\A i \in 0..7 : BitOf(last.pre.ac, i) * BitOf(m, i) = 0)
           /\ Status(sr, Overflow) = (BitOf(m, 6) = 1)
           /\ Status(sr, Negative) = (BitOf(m, 7) = 1)
           /\ ac = last.pre.ac /\ x = last.pre.x /\ y = last.pre.y
           /\ Status(sr, Carry) = Status(last.pre.sr, Carry)
           /\ bus = last.pre.bus

\* BIT with AC = 0x43 over m = 0x84 has set Zero and Negative, Overflow clear
C17_Witness ==
    /\ StepOf({"BIT"}) /\ fault = "none"
    /\ last.pre.ac = 67 /\ OperandByte = 132
    /\ Status(sr, Zero) /\ Status(sr, Negative) /\ ~Status(sr, Overflow)

\* BIT with AC = 0x06 over m = 0xFF has set Overflow and Negative, Zero clear
C17_AllOnes ==
    /\ StepOf({"BIT"}) /\ fault = "none"
    /\ last.pre.ac = 6 /\ OperandByte = 255
    /\ ~Status(sr, Zero) /\ Status(sr, Negative) /\ Status(sr, Overflow)

----------------------------------------------------------------------------
(* Claims about the status register *)

\* C18 (status accessors): set_status(b, s) makes status(b) = s and leaves
\* the other six flags as they were; in every state reachable by
\* attach_backend, reset, set_status and step, bit 7 of the status register
\* is 0, so the register is the sum of its seven flags.
C18_Status ==
    /\ sr < 128
    /\ sr = StatusU8(sr, Carry) + 2 * StatusU8(sr, Zero) + 4 * StatusU8(sr, Interrupt)
            + 8 * StatusU8(sr, Decimal) + 16 * StatusU8(sr, Break)
            + 32 * StatusU8(sr, Overflow) + 64 * StatusU8(sr, Negative)
    /\ last.op = "set_status" =>
         /\ Status(sr, last.a) = (last.v = 1)
         /\ \A b \in StatusBits \ {last.a} : Status(sr, b) = Status(last.pre.sr, b)

\* set_status(Overflow, false) after reset() has turned sr from 0x34 into 0x14
C18_Witness ==
    /\ last.op = "set_status" /\ last.prev = "reset"
    /\ last.a = Overflow /\ last.v = 0
    /\ last.pre.sr = 52 /\ sr = 20

----------------------------------------------------------------------------
(* Claims about memory and the stack pointer *)

\* the last step was a completed DEC or a completed ASL in a memory mode
StoringStep ==
    /\ last.op = "step" /\ fault = "none"
    /\ \/ last.ins.opcode.id = "DEC"
       \/ last.ins.opcode.id = "ASL" /\ MemoryMode

\* C19 (memory and SP frame): a DEC step and a memory-mode ASL step change at
\* most the byte at their resolved address, DEC storing (old - 1) mod 256
\* there; reset and every other step leave all memory unchanged; no
\* operation changes SP.
C19_Frame ==
    /\ sp = last.pre.sp
    /\ last.op \in {"reset", "step"} =>
         IF StoringStep
         THEN /\ SameLayout(last.pre.bus, bus)
              /\ ChangedBytes(last.pre.bus, bus) \subseteq {ByteAt(last.pre.bus, OperandAddress)}
              /\ last.ins.opcode.id = "DEC" =>
                    StoredByte = (BusRead(last.pre.bus, OperandAddress).val + 255) % 256
         ELSE bus = last.pre.bus

\* DEC $12,X over the byte 0x00 has stored 0xFF at 0x0012 and nothing else
C19_Witness ==
    /\ StepOf({"DEC"}) /\ fault = "none"
    /\ OperandAddress = 18
    /\ BusRead(last.pre.bus, 18).val = 0 /\ BusRead(bus, 18).val = 255
    /\ ChangedBytes(last.pre.bus, bus) = {ByteAt(last.pre.bus, 18)}
    /\ sp = last.pre.sp

\* a BRK step has completed with memory and SP unchanged
C19_Brk ==
    /\ StepOf({"BRK"}) /\ fault = "none"
    /\ bus = last.pre.bus /\ sp = last.pre.sp /\ pc = last.pre.pc + 1

----------------------------------------------------------------------------
(* Claims about fatal errors *)

\* the instructions Cpu::execute dispatches
ImplementedIds ==
    {"ADC", "AND", "ASL", "BCC", "BCS", "BEQ", "BIT", "BMI", "BNE", "BPL", "BRK",
     "CLC", "CLD", "CLI", "CMP", "CPX", "CPY", "DEC", "DEX", "DEY", "JMP"}

\* the fatal errors of a memory access that no backend serves
MemoryFaults == {"no_backend", "index_out_of_bounds", "unaligned"}

\* C20 (no arithmetic fault): a step of an implemented instruction whose
\* memory accesses are all served completes without a fatal error; DEX with
\* X = 0x00 ends with X = 0xFF, Negative set and Zero clear; a 1-byte
\* instruction fetched at 0xFFFF ends with pc = 0x0000.
C20_NoArithmeticFault ==
    /\ (StepOf(ImplementedIds) /\ fault \notin MemoryFaults) => fault = "none"
    /\ (StepOf({"DEX"}) /\ last.pre.x = 0)
       => (fault = "none" /\ x = 255 /\ Status(sr, Negative) /\ ~Status(sr, Zero))
    /\ (StepOf(ImplementedIds) /\ last.ins.opcode.bytes = 1 /\ last.pre.pc = 65535)
       => (fault = "none" /\ pc = 0)

====
